---- MODULE Spec2Model ----
(***************************************************************************)
(* Model of translator (src/source-code/src/main.rs): main reads a file,   *)
(* extract_blocks slices out the marked code blocks, and execute_code      *)
(* runs each block through its toolchain inside a temporary directory.     *)
(*                                                                         *)
(* Text is a sequence of one-character strings.  "<FF>" stands for a byte  *)
(* that is not valid UTF-8 and "<U+FFFD>" for the replacement character;   *)
(* "<U+000B>", "<U+0085>", ... stand for the characters of that code point.*)
(* The diagnostic lines of --verbose are not recorded, but a failed write  *)
(* of one of them panics like any other println!/eprintln!.                *)
(***************************************************************************)
EXTENDS Integers, Sequences, FiniteSets

(* ---------------------------- bounds ---------------------------------- *)

\* Largest number of lines of the input file.
MaxLines == 4

(* ------------------------- text literals ------------------------------ *)

MARKER == <<"|", ">", " ", "t", "r", "a", "n", "s", "l", "a", "t", "o", "r", ":">>
LangRust == <<"r", "u", "s", "t">>
LangJava == <<"j", "a", "v", "a">>
LangPython == <<"p", "y", "t", "h", "o", "n">>
LangGo == <<"g", "o">>
LangRuby == <<"r", "u", "b", "y">>
UnsupportedPrefix == <<"U", "n", "s", "u", "p", "p", "o", "r", "t", "e", "d", " ", "l", "a", "n", "g", "u", "a", "g", "e", ":", " ">>

\* The lines an input file is made of.
LinePython == <<"|", ">", " ", "t", "r", "a", "n", "s", "l", "a", "t", "o", "r", ":", " ", "p", "y", "t", "h", "o", "n", "(">>
LineRust == <<"\f", " ", "|", ">", " ", "t", "r", "a", "n", "s", "l", "a", "t", "o", "r", ":", " ", "r", "u", "s", "t", "(", "\r">>
LineGo == <<"|", ">", " ", "t", "r", "a", "n", "s", "l", "a", "t", "o", "r", ":", "\f", "g", "o", "<U+00A0>", "(", "x">>
LineJava == <<"|", ">", " ", "t", "r", "a", "n", "s", "l", "a", "t", "o", "r", ":", " ", "j", "a", "v", "a", "(">>
LineRuby == <<"|", ">", " ", "t", "r", "a", "n", "s", "l", "a", "t", "o", "r", ":", " ", "r", "u", "b", "y", "(">>
LineNoLang == <<"|", ">", " ", "t", "r", "a", "n", "s", "l", "a", "t", "o", "r", ":", " ", "(">>
LinePrint == <<"p", "r", "i", "n", "t", "(", "\"", "h", "i", "\"", ")">>
LineClose == <<")">>
LineClose2 == <<")", ")">>

InputLines ==
    { LinePython, LineRust, LineGo, LineJava, LineRuby, LineNoLang,
      LinePrint, LineClose, LineClose2 }

\* Every file of at most MaxLines lines, each line ended by a newline.
RECURSIVE JoinLines(_)
JoinLines(ls) ==
    IF ls = <<>> THEN <<>> ELSE Head(ls) \o <<"\n">> \o JoinLines(Tail(ls))

InputFiles ==
    { JoinLines(ls) : ls \in UNION { [1..n -> InputLines] : n \in 0..MaxLines } }

(* --------------------------- str helpers ------------------------------ *)

\* char::is_whitespace: the code points with the White_Space property.
IsWhite(c) ==
    c \in {"\t", "\n", "<U+000B>", "\f", "\r", " ", "<U+0085>", "<U+00A0>",
           "<U+1680>", "<U+2000>", "<U+2001>", "<U+2002>", "<U+2003>",
           "<U+2004>", "<U+2005>", "<U+2006>", "<U+2007>", "<U+2008>",
           "<U+2009>", "<U+200A>", "<U+2028>", "<U+2029>", "<U+202F>",
           "<U+205F>", "<U+3000>"}

RECURSIVE TrimStart(_)
TrimStart(s) ==
    IF s /= <<>> /\ IsWhite(Head(s)) THEN TrimStart(Tail(s)) ELSE s

RECURSIVE TrimEnd(_)
TrimEnd(s) ==
    IF s /= <<>> /\ IsWhite(s[Len(s)])
    THEN TrimEnd(SubSeq(s, 1, Len(s) - 1))
    ELSE s

\* str::trim
Trim(s) == TrimEnd(TrimStart(s))

\* str::starts_with
StartsWith(s, p) == Len(s) >= Len(p) /\ SubSeq(s, 1, Len(p)) = p

\* Position of the first c in s, 0 when there is none.
FirstIndex(s, c) ==
    IF \E n \in 1..Len(s) : s[n] = c
    THEN CHOOSE n \in 1..Len(s) : s[n] = c /\ \A m \in 1..(n - 1) : s[m] /= c
    ELSE 0

\* s.splitn(2, c).collect(): one part when c is absent, else two.
SplitN2(s, c) ==
    LET n == FirstIndex(s, c)
    IN  IF n = 0 THEN <<s>>
        ELSE <<SubSeq(s, 1, n - 1), SubSeq(s, n + 1, Len(s))>>

\* s.split(c).next().unwrap_or(""): the text before the first c.
SplitFirst(s, c) ==
    LET n == FirstIndex(s, c)
    IN  IF n = 0 THEN s ELSE SubSeq(s, 1, n - 1)

\* str::lines: split at "\n", drop one "\r" before it; no last empty line.
RECURSIVE Lines(_)
Lines(content) ==
    IF content = <<>> THEN <<>>
    ELSE LET n == FirstIndex(content, "\n")
             raw == IF n = 0 THEN content ELSE SubSeq(content, 1, n - 1)
             line == IF n /= 0 /\ raw /= <<>> /\ raw[Len(raw)] = "\r"
                     THEN SubSeq(raw, 1, Len(raw) - 1)
                     ELSE raw
             rest == IF n = 0 THEN <<>> ELSE SubSeq(content, n + 1, Len(content))
         IN  <<line>> \o Lines(rest)

(* ------------------------ extract_blocks parts ------------------------ *)

\* line.starts_with("|> translator:") on the trimmed line
IsMarker(line) == StartsWith(Trim(line), MARKER)

\* The language of a marker line; <<>> when the line opens no block.
ParseLang(line) ==
    LET parts == SplitN2(Trim(line), ":")
    IN  IF Len(parts) = 2
        THEN Trim(SplitFirst(Trim(parts[2]), "("))
        ELSE <<>>

\* The inner for loop: depth after every character of code_line.
RECURSIVE CountDepth(_, _)
CountDepth(code_line, depth) ==
    IF code_line = <<>> THEN depth
    ELSE CountDepth(Tail(code_line),
                    IF Head(code_line) = "(" THEN depth + 1
                    ELSE IF Head(code_line) = ")" THEN depth - 1
                    ELSE depth)

\* The capture loop's condition.
CaptureContinues(i, n, depth) == i < n /\ depth > 0

\* The test that decides whether the captured block is pushed.
BlockClosed(depth) == depth = 0

\* The first line of a capture is the one after the marker line (i += 1).
CaptureStart(i) == i + 1

\* Where the outer loop resumes after a capture (continue leaves i alone).
ResumeIndex(i) == i

(* ------------------------- execute_code parts ------------------------- *)

\* String::from_utf8_lossy: every invalid byte becomes U+FFFD.
RECURSIVE from_utf8_lossy(_)
from_utf8_lossy(bytes) ==
    IF bytes = <<>> THEN <<>>
    ELSE <<IF Head(bytes) = "<FF>" THEN "<U+FFFD>" ELSE Head(bytes)>>
         \o from_utf8_lossy(Tail(bytes))

\* What a child process can leave behind: exit status, stdout, stderr.
ChildOutcomes ==
    { [status |-> 0, stdout |-> <<"o", "k", "<FF>">>, stderr |-> <<"W">>],
      [status |-> 1, stdout |-> <<"o">>, stderr |-> <<"E">>],
      [status |-> 2, stdout |-> <<>>, stderr |-> <<"E", "<FF>">>] }

\* Display text of the io::Error of a failed step.
IoErrorText(step) ==
    CASE step = "tempdir" -> <<"<io error: tempdir>">>
      [] step = "write" -> <<"<io error: write>">>
      [] step = "spawn" -> <<"<io error: spawn>">>
      [] step = "wait" -> <<"<io error: wait>">>

Ok(text) == [ok |-> TRUE, text |-> text]
Err(text) == [ok |-> FALSE, text |-> text]
NoResult == [ok |-> FALSE, text |-> <<"<none>">>]

\* The arms of the match in execute_code.
Supported(l) == l \in {LangRust, LangJava, LangPython, LangGo}

\* The handlers that write the code to a file of the temporary directory.
WritesSource(l) == l \in {LangRust, LangJava, LangGo}

\* The handlers that compile first and run in a second child process.
HasRunStep(l) == l \in {LangRust, LangJava}

\* The program of the first child process of a handler.
FirstCommand(l) ==
    CASE l = LangRust -> "rustc"
      [] l = LangJava -> "javac"
      [] l = LangPython -> "python"
      [] l = LangGo -> "go run"

\* The program of the second child process of a handler.
RunCommand(l) ==
    CASE l = LangRust -> "a.out"
      [] l = LangJava -> "java"

\* Faulty variant: the exit status of the compiler is not looked at.
StatusSuccessAlways(status) == TRUE

\* output.status.success()
StatusSuccess(status) == status = 0

\* Drop of the TempDir (execute_code returns or unwinds): the directory is
\* removed.
DropTempDir(ds, d) == ds \ {d}

\* Faulty variant: the child is left running (spawn without wait).
WaitWithOutputNoWait(cs, c) == cs

\* wait_with_output: returns once the child has exited.
WaitWithOutput(cs, c) == cs \ {c}

\* main's match on the result: both arms print and the loop goes on.
AfterBlock(ok) == "loop"

\* Exit status of a process whose main thread has panicked.
PanicExit == 101

(* ------------------------------ state --------------------------------- *)

VARIABLES
    verbose,    \* main: the third argument is --verbose
    content,    \* the text read from the input file
    lines,      \* extract_blocks: content.lines().collect()
    i,          \* extract_blocks: index of the next line (0-based)
    lang,       \* extract_blocks: language of the block being captured
    code,       \* extract_blocks: code buffer of the block being captured
    depth,      \* extract_blocks: parenthesis depth of the capture
    blocks,     \* extracted blocks, a sequence of [lang, code]
    pc,         \* where the program is
    examined,   \* history: indices of the lines tested for the marker
    captured,   \* history: indices of the lines appended to a code buffer
    captures,   \* history: one record per finished capture
    marker,     \* history: index of the marker line of the running capture
    k,          \* main: number of blocks taken from the for loop
    dir,        \* execute_code: the TempDir of the running dispatch, 0 if none
    dirs,       \* the temporary directories that exist on disk
    nextDir,    \* the name tempdir() gives to the next directory
    children,   \* the child processes that are running
    result,     \* execute_code: the value about to be returned
    outputs,    \* what main has printed, one record per dispatched block
    exit,       \* exit status of the program, -1 while it runs
    spawned,    \* history: the child processes started, [blk, cmd]
    exited,     \* history: the children that have exited, with their outcome
                \* and how wait_with_output ended (wait: ok, err, panic)
    dirOf,      \* history: the directory created for each dispatch
    returned    \* history: the results execute_code has returned

exvars == <<verbose, content, lines, i, lang, code, depth, blocks, examined, captured,
            captures, marker>>
dvars == <<k, dir, dirs, nextDir, children, result, outputs, exit, spawned,
           exited, dirOf, returned>>
vars == <<exvars, dvars, pc>>

Init ==
    /\ verbose \in BOOLEAN
    /\ content \in InputFiles
    /\ lines = Lines(content)
    /\ i = 0
    /\ lang = <<>>
    /\ code = <<>>
    /\ depth = 0
    /\ blocks = <<>>
    /\ pc = "scan"
    /\ examined = <<>>
    /\ captured = <<>>
    /\ captures = <<>>
    /\ marker = 0
    /\ k = 0
    /\ dir = 0
    /\ dirs = {}
    /\ nextDir = 1
    /\ children = {}
    /\ result = NoResult
    /\ outputs = <<>>
    /\ exit = -1
    /\ spawned = <<>>
    /\ exited = <<>>
    /\ dirOf = <<>>
    /\ returned = <<>>

(* --------------------------- extract_blocks --------------------------- *)

\* One turn of the outer loop: the line opens a capture or is skipped.
ScanLine ==
    /\ pc = "scan"
    /\ i < Len(lines)
    /\ examined' = Append(examined, i)
    /\ IF IsMarker(lines[i + 1]) /\ ParseLang(lines[i + 1]) /= <<>>
       THEN /\ lang' = ParseLang(lines[i + 1])
            /\ code' = <<>>
            /\ depth' = 1
            /\ marker' = i
            /\ i' = CaptureStart(i)
            /\ pc' = "capture"
       ELSE /\ i' = i + 1
            /\ UNCHANGED <<lang, code, depth, marker, pc>>
    /\ UNCHANGED <<verbose, content, lines, blocks, captured, captures>>
    /\ UNCHANGED dvars

\* One turn of the capture loop: count the parentheses, append the line.
CaptureLine ==
    /\ pc = "capture"
    /\ CaptureContinues(i, Len(lines), depth)
    /\ depth' = CountDepth(lines[i + 1], depth)
    /\ code' = code \o lines[i + 1] \o <<"\n">>
    /\ captured' = Append(captured, i)
    /\ i' = i + 1
    /\ UNCHANGED <<verbose, content, lines, lang, blocks, pc, examined, captures, marker>>
    /\ UNCHANGED dvars

\* The capture loop has ended: push the block or drop it, then continue.
\* With --verbose a line is printed (println! for a pushed block, eprintln!
\* for a dropped one); when that write fails the program panics inside
\* extract_blocks and nothing is returned.
EndCapture ==
    /\ pc = "capture"
    /\ ~CaptureContinues(i, Len(lines), depth)
    /\ blocks' = IF BlockClosed(depth)
                 THEN Append(blocks, [lang |-> lang, code |-> Trim(code)])
                 ELSE blocks
    /\ captures' = Append(captures,
                          [marker |-> marker, last |-> i - 1, depth |-> depth,
                           exhausted |-> ~(i < Len(lines)),
                           emitted |-> Len(blocks') > Len(blocks),
                           block |-> IF Len(blocks') > Len(blocks)
                                     THEN Len(blocks') ELSE 0])
    /\ \/ /\ i' = ResumeIndex(i)
          /\ pc' = "scan"
          /\ UNCHANGED exit
       \/ /\ verbose
          /\ pc' = "done"
          /\ exit' = PanicExit
          /\ UNCHANGED i
    /\ UNCHANGED <<verbose, content, lines, lang, code, depth, examined, captured, marker>>
    /\ UNCHANGED <<k, dir, dirs, nextDir, children, result, outputs, spawned,
                   exited, dirOf, returned>>

\* The outer loop has ended: extract_blocks returns blocks to main.
ExtractReturn ==
    /\ pc = "scan"
    /\ ~(i < Len(lines))
    /\ pc' = "loop"
    /\ UNCHANGED <<exvars, dvars>>

(* -------------------------------- main -------------------------------- *)

\* The block being dispatched.
Cur == blocks[k]

\* The for loop takes the next block and calls execute_code.  With
\* --verbose the code is printed first; a failed write panics.
MainNext ==
    /\ pc = "loop"
    /\ k < Len(blocks)
    /\ k' = k + 1
    /\ \/ /\ pc' = "tempdir"
          /\ UNCHANGED exit
       \/ /\ verbose
          /\ pc' = "done"
          /\ exit' = PanicExit
    /\ UNCHANGED <<exvars, dir, dirs, nextDir, children, result, outputs,
                   spawned, exited, dirOf>>
    /\ UNCHANGED returned

\* The for loop is over: main returns Ok(()).
MainExit ==
    /\ pc = "loop"
    /\ k = Len(blocks)
    /\ exit' = 0
    /\ pc' = "done"
    /\ UNCHANGED <<exvars, k, dir, dirs, nextDir, children, result, outputs,
                   spawned, exited, dirOf>>
    /\ UNCHANGED returned

(* ----------------------------- execute_code --------------------------- *)

\* let dir = tempdir()?  -- the directory is created, or the call fails.
\* With --verbose the path is printed; a failed write panics, and the
\* unwinding drops the TempDir (the removal can fail, as in Return).
TempDirOk ==
    /\ pc = "tempdir"
    /\ nextDir' = nextDir + 1
    /\ dirOf' = Append(dirOf, [blk |-> k, dir |-> nextDir])
    /\ \/ /\ dir' = nextDir
          /\ dirs' = dirs \cup {nextDir}
          /\ pc' = "match"
          /\ UNCHANGED exit
       \/ /\ verbose
          /\ \E removed \in BOOLEAN :
                 dirs' = IF removed THEN DropTempDir(dirs \cup {nextDir}, nextDir)
                         ELSE dirs \cup {nextDir}
          /\ dir' = 0
          /\ pc' = "done"
          /\ exit' = PanicExit
    /\ UNCHANGED <<exvars, k, children, result, outputs, spawned, exited>>
    /\ UNCHANGED returned

TempDirFail ==
    /\ pc = "tempdir"
    /\ result' = Err(IoErrorText("tempdir"))
    /\ pc' = "ret"
    /\ UNCHANGED <<exvars, k, dir, dirs, nextDir, children, outputs, exit,
                   spawned, exited, dirOf>>
    /\ UNCHANGED returned

\* match lang: a handler is entered, or the language is unsupported.
Dispatch ==
    /\ pc = "match"
    /\ IF Supported(Cur.lang)
       THEN /\ pc' = IF WritesSource(Cur.lang) THEN "write" ELSE "spawn1"
            /\ UNCHANGED result
       ELSE /\ result' = Err(UnsupportedPrefix \o Cur.lang)
            /\ pc' = "ret"
    /\ UNCHANGED <<exvars, k, dir, dirs, nextDir, children, outputs, exit,
                   spawned, exited, dirOf>>
    /\ UNCHANGED returned

\* fs::write(&file_path, code)?
WriteSource ==
    /\ pc = "write"
    /\ \/ /\ pc' = "spawn1"
          /\ UNCHANGED result
       \/ /\ result' = Err(IoErrorText("write"))
          /\ pc' = "ret"
    /\ UNCHANGED <<exvars, k, dir, dirs, nextDir, children, outputs, exit,
                   spawned, exited, dirOf>>
    /\ UNCHANGED returned

\* Command::new(..).spawn()? of the first (or only) child of the handler.
SpawnFirst ==
    /\ pc = "spawn1"
    /\ \/ /\ children' = children \cup {[blk |-> k, cmd |-> FirstCommand(Cur.lang)]}
          /\ spawned' = Append(spawned, [blk |-> k, cmd |-> FirstCommand(Cur.lang)])
          /\ pc' = "wait1"
          /\ UNCHANGED result
       \/ /\ result' = Err(IoErrorText("spawn"))
          /\ pc' = "ret"
          /\ UNCHANGED <<children, spawned>>
    /\ UNCHANGED <<exvars, k, dir, dirs, nextDir, outputs, exit, exited, dirOf>>
    /\ UNCHANGED returned

\* wait_with_output panics (the unwrap of a failed pipe read): the program
\* ends with status 101 while the child c is still running, or has exited
\* unawaited; the unwinding drops the TempDir.
WaitPanics(c) ==
    /\ \/ /\ UNCHANGED <<children, exited>>
       \/ \E o \in ChildOutcomes :
              /\ children' = WaitWithOutput(children, c)
              /\ exited' = Append(exited, [blk |-> c.blk, cmd |-> c.cmd,
                                           status |-> o.status, stdout |-> o.stdout,
                                           stderr |-> o.stderr, wait |-> "panic"])
    /\ \E removed \in BOOLEAN :
           dirs' = IF dir /= 0 /\ removed THEN DropTempDir(dirs, dir) ELSE dirs
    /\ dir' = 0
    /\ pc' = "done"
    /\ exit' = PanicExit
    /\ UNCHANGED result

\* wait_with_output()? of the first child, and the test of its status.
\* The call returns once the child has exited; when the wait itself fails
\* (wait = "err") the handler returns the io::Error and the status, stdout
\* and stderr the child left are not looked at.
WaitFirst ==
    /\ pc = "wait1"
    /\ LET c == [blk |-> k, cmd |-> FirstCommand(Cur.lang)]
       IN  \/ \E o \in ChildOutcomes, wait \in {"ok", "err"} :
                 /\ children' = WaitWithOutput(children, c)
                 /\ exited' = Append(exited, [blk |-> k, cmd |-> c.cmd,
                                              status |-> o.status, stdout |-> o.stdout,
                                              stderr |-> o.stderr, wait |-> wait])
                 /\ IF wait = "err"
                    THEN /\ result' = Err(IoErrorText("wait"))
                         /\ pc' = "ret"
                    ELSE IF HasRunStep(Cur.lang)
                    THEN IF ~StatusSuccess(o.status)
                         THEN /\ result' = Err(from_utf8_lossy(o.stderr))
                              /\ pc' = "ret"
                         ELSE /\ pc' = "spawn2"
                              /\ UNCHANGED result
                    ELSE /\ result' = IF StatusSuccess(o.status)
                                      THEN Ok(from_utf8_lossy(o.stdout))
                                      ELSE Err(from_utf8_lossy(o.stderr))
                         /\ pc' = "ret"
                 /\ UNCHANGED <<dir, dirs, exit>>
           \/ WaitPanics(c)
    /\ UNCHANGED <<exvars, k, nextDir, outputs, spawned, dirOf>>
    /\ UNCHANGED returned

\* spawn()? of the produced binary (rust) or of java -cp dir Main.
SpawnRun ==
    /\ pc = "spawn2"
    /\ \/ /\ children' = children \cup {[blk |-> k, cmd |-> RunCommand(Cur.lang)]}
          /\ spawned' = Append(spawned, [blk |-> k, cmd |-> RunCommand(Cur.lang)])
          /\ pc' = "wait2"
          /\ UNCHANGED result
       \/ /\ result' = Err(IoErrorText("spawn"))
          /\ pc' = "ret"
          /\ UNCHANGED <<children, spawned>>
    /\ UNCHANGED <<exvars, k, dir, dirs, nextDir, outputs, exit, exited, dirOf>>
    /\ UNCHANGED returned

\* wait_with_output()? of the run step, and the test of its status.
WaitRun ==
    /\ pc = "wait2"
    /\ LET c == [blk |-> k, cmd |-> RunCommand(Cur.lang)]
       IN  \/ \E o \in ChildOutcomes, wait \in {"ok", "err"} :
                 /\ children' = WaitWithOutput(children, c)
                 /\ exited' = Append(exited, [blk |-> k, cmd |-> c.cmd,
                                              status |-> o.status, stdout |-> o.stdout,
                                              stderr |-> o.stderr, wait |-> wait])
                 /\ result' = IF wait = "err" THEN Err(IoErrorText("wait"))
                              ELSE IF StatusSuccess(o.status)
                              THEN Ok(from_utf8_lossy(o.stdout))
                              ELSE Err(from_utf8_lossy(o.stderr))
                 /\ pc' = "ret"
                 /\ UNCHANGED <<dir, dirs, exit>>
           \/ WaitPanics(c)
    /\ UNCHANGED <<exvars, k, nextDir, outputs, spawned, dirOf>>
    /\ UNCHANGED returned

\* execute_code returns and main prints the result.  The TempDir is dropped
\* on the way out: the directory is removed, or the removal fails and the
\* error is ignored (the directory stays on disk).  println!/eprintln! panic
\* when the write fails: the program ends with status 101 and the blocks
\* that are left are not dispatched.
Return ==
    /\ pc = "ret"
    /\ \E removed \in BOOLEAN :
           dirs' = IF dir /= 0 /\ removed THEN DropTempDir(dirs, dir) ELSE dirs
    /\ dir' = 0
    /\ returned' = Append(returned, [blk |-> k, lang |-> Cur.lang,
                                     ok |-> result.ok, text |-> result.text])
    /\ result' = NoResult
    /\ \/ /\ outputs' = Append(outputs, [blk |-> k, lang |-> Cur.lang,
                                         ok |-> result.ok, text |-> result.text])
          /\ pc' = AfterBlock(result.ok)
          /\ UNCHANGED exit
       \/ /\ pc' = "done"
          /\ exit' = PanicExit
          /\ UNCHANGED outputs
    /\ UNCHANGED <<exvars, k, nextDir, children, spawned, exited, dirOf>>

Next ==
    \/ ScanLine
    \/ CaptureLine
    \/ EndCapture
    \/ ExtractReturn
    \/ MainNext
    \/ MainExit
    \/ TempDirOk
    \/ TempDirFail
    \/ Dispatch
    \/ WriteSource
    \/ SpawnFirst
    \/ WaitFirst
    \/ SpawnRun
    \/ WaitRun
    \/ Return

Spec == Init /\ [][Next]_vars

(* ======================= properties of the program ==================== *)

\* extract_blocks is over: it has returned or it has panicked.
ExtractOver == pc \notin {"scan", "capture"}

\* The program has panicked inside extract_blocks.
ExtractPanicked == pc = "done" /\ exit = PanicExit /\ k = 0

\* extract_blocks has returned.
Extracted == ExtractOver /\ ~ExtractPanicked

\* The lines with index from..to (0-based, inclusive), each ended by "\n".
Joined(from, to) == JoinLines(SubSeq(lines, from + 1, to + 1))

\* Line m is a marker line with a non-empty language.
OpensBlock(m) == IsMarker(lines[m + 1]) /\ ParseLang(lines[m + 1]) /= <<>>

\* The depths after each character of text, starting from depth d.
RECURSIVE RunningDepths(_, _)
RunningDepths(text, d) ==
    IF text = <<>> THEN {}
    ELSE LET d2 == IF Head(text) = "(" THEN d + 1
                   ELSE IF Head(text) = ")" THEN d - 1 ELSE d
         IN  {d2} \cup RunningDepths(Tail(text), d2)

\* The depth of marker m never returns to zero before the end of input.
NeverCloses(m) == 0 \notin RunningDepths(Joined(m + 1, Len(lines) - 1), 1)

\* Number of times x occurs in the sequence s.
Count(s, x) == Cardinality({n \in 1..Len(s) : s[n] = x})

(* ---- C1 ---- *)

C1_Input == JoinLines(<<LinePython, LinePrint, LineClose>>)

\* C1: for the three lines `|> translator: python(`, `print("hi")`, `)`
\* extract_blocks returns exactly one Block, python, with code `print("hi")`.
C1_PythonHiBlock ==
    (content = C1_Input /\ Extracted)
        => blocks = <<[lang |-> LangPython, code |-> LinePrint]>>

(* ---- C2 ---- *)

\* C2: a marker line with a non-empty language whose depth never returns to
\* zero before the end of input yields no Block, and the blocks closed before
\* it are still returned (the unclosed block is never fatal).
C2_UnclosedDropped ==
    /\ \A j \in 1..Len(captures) :
           (captures[j].exhausted /\ captures[j].depth > 0) => ~ExtractPanicked
    /\ Extracted =>
        \A m \in 0..(Len(lines) - 1) :
            (OpensBlock(m) /\ NeverCloses(m)) =>
                /\ \A j \in 1..Len(captures) :
                       captures[j].marker = m => ~captures[j].emitted
                /\ \A j \in 1..Len(captures) :
                       (captures[j].marker < m /\ captures[j].depth = 0) =>
                           /\ captures[j].emitted
                           /\ captures[j].block \in 1..Len(blocks)
                           /\ blocks[captures[j].block] =
                                  [lang |-> ParseLang(lines[captures[j].marker + 1]),
                                   code |-> Trim(Joined(captures[j].marker + 1,
                                                        captures[j].last))]
                /\ Len(blocks) = Cardinality({j \in 1..Len(captures) :
                                                  captures[j].emitted})

(* ---- C3 ---- *)

\* C3: Blocks are returned in the order of their marker lines; after a block
\* closes, scanning resumes at the line after the closing line, so a marker on
\* that line opens the next block; each Block has its own language and only
\* its own lines as code.
C3_FileOrder ==
    ExtractOver =>
        /\ Len(blocks) = Cardinality({j \in 1..Len(captures) : captures[j].emitted})
        /\ \A j \in 1..Len(captures) :
               captures[j].emitted =>
                   /\ captures[j].block \in 1..Len(blocks)
                   /\ blocks[captures[j].block].lang =
                          ParseLang(lines[captures[j].marker + 1])
                   /\ blocks[captures[j].block].code =
                          Trim(Joined(captures[j].marker + 1, captures[j].last))
                   /\ captures[j].last + 1 < Len(lines) =>
                          /\ Count(examined, captures[j].last + 1) = 1
                          /\ OpensBlock(captures[j].last + 1) =>
                                 \E j2 \in 1..Len(captures) :
                                     captures[j2].marker = captures[j].last + 1
        /\ \A j1, j2 \in 1..Len(captures) :
               (j1 < j2 /\ captures[j1].emitted /\ captures[j2].emitted) =>
                   /\ captures[j1].block < captures[j2].block
                   /\ captures[j1].last < captures[j2].marker

(* ---- C4 ---- *)

\* C4: for every language other than rust, java, go, python execute_code
\* returns Failure `Unsupported language: <token>`, no child process is
\* spawned and no other step gives a different message.
C4_UnsupportedMessage ==
    \A j \in 1..Len(returned) :
        ~Supported(returned[j].lang) =>
            /\ ~returned[j].ok
            /\ returned[j].text = UnsupportedPrefix \o returned[j].lang
            /\ \A n \in 1..Len(spawned) : spawned[n].blk /= returned[j].blk

(* ---- C5 ---- *)

CompileCommands == {"rustc", "javac", "go run"}

\* C5: when the compile step of a rust, go or java block exits with a
\* non-zero status, the dispatch returns Failure with the compiler's captured
\* standard error (as text), and no run step is started for that block.
C5_CompileFailure ==
    \A n \in 1..Len(exited) :
        (exited[n].cmd \in CompileCommands /\ exited[n].status /= 0) =>
            /\ \A m \in 1..Len(spawned) :
                   spawned[m].blk = exited[n].blk => spawned[m].cmd = exited[n].cmd
            /\ (pc = "ret" /\ k = exited[n].blk) =>
                   result = Err(from_utf8_lossy(exited[n].stderr))
            /\ (pc /= "ret" \/ k /= exited[n].blk) =>
                   \E j \in 1..Len(returned) :
                       /\ returned[j].blk = exited[n].blk
                       /\ ~returned[j].ok
                       /\ returned[j].text = from_utf8_lossy(exited[n].stderr)

\* The text a dispatch returns after the first child n of its block exited.
C5_Message(n) ==
    IF exited[n].wait = "ok" THEN from_utf8_lossy(exited[n].stderr)
    ELSE IoErrorText("wait")

\* C5 (amended): when the compile step of a rust, go or java block exits with
\* a non-zero status, no run step is started for that block; when
\* execute_code returns for the block it returns Failure, with the compiler's
\* captured standard error (as text) when wait_with_output returned the
\* output and with the text of the I/O error when wait_with_output itself
\* failed; when wait_with_output panics execute_code does not return and the
\* program ends with exit status 101.
C5_CompileFailureAwaited ==
    \A n \in 1..Len(exited) :
        (exited[n].cmd \in CompileCommands /\ exited[n].status /= 0) =>
            /\ \A m \in 1..Len(spawned) :
                   spawned[m].blk = exited[n].blk => spawned[m].cmd = exited[n].cmd
            /\ exited[n].wait = "panic" =>
                   /\ pc = "done" /\ exit = PanicExit
                   /\ \A j \in 1..Len(returned) : returned[j].blk /= exited[n].blk
            /\ exited[n].wait /= "panic" =>
                   /\ (pc = "ret" /\ k = exited[n].blk) => result = Err(C5_Message(n))
                   /\ (pc /= "ret" \/ k /= exited[n].blk) =>
                          \E j \in 1..Len(returned) :
                              /\ returned[j].blk = exited[n].blk
                              /\ ~returned[j].ok
                              /\ returned[j].text = C5_Message(n)

\* A rust block has failed to compile with its output awaited, and the wait
\* for a failed go run has itself failed; both dispatches have returned.
C5_Witness ==
    /\ pc = "loop"
    /\ \E n \in 1..Len(exited) :
           exited[n].cmd = "rustc" /\ exited[n].status /= 0 /\ exited[n].wait = "ok"
    /\ \E n \in 1..Len(exited) :
           exited[n].cmd = "go run" /\ exited[n].status /= 0 /\ exited[n].wait = "err"

(* ---- C6 ---- *)

\* C6: once execute_code has returned for a block, whatever the result, its
\* scratch directory no longer exists; between two dispatches no scratch
\* directory exists and no directory is shared by two blocks.
C6_ScratchRemoved ==
    /\ (pc \in {"scan", "capture", "loop", "tempdir"}
           \/ (pc = "done" /\ Len(returned) = k)) => dirs = {}
    /\ pc /= "done" => dirs \subseteq {dir}
    /\ \A a, b \in 1..Len(dirOf) :
           a /= b => (dirOf[a].dir /= dirOf[b].dir /\ dirOf[a].blk /= dirOf[b].blk)
    /\ \A j \in 1..Len(returned) :
           \A a \in 1..Len(dirOf) :
               dirOf[a].blk = returned[j].blk => dirOf[a].dir \notin dirs

(* ---- C7 ---- *)

\* C7: every Block is dispatched exactly once, in extraction order, whatever
\* the outcomes of the blocks before it, and the program then completes with
\* exit status 0.
C7_AllDispatched ==
    /\ k \in 0..Len(blocks)
    /\ Len(outputs) = (IF pc \in {"tempdir", "match", "write", "spawn1", "wait1",
                                  "spawn2", "wait2", "ret"}
                       THEN k - 1 ELSE k)
    /\ \A j \in 1..Len(outputs) :
           outputs[j].blk = j /\ outputs[j].lang = blocks[j].lang
    /\ exit \in {-1, 0}
    /\ pc = "done" => (exit = 0 /\ Len(outputs) = Len(blocks))

(* ---- C8 ---- *)

C9_CaptureEnds ==
    \A j \in 1..Len(captures) :
        \/ captures[j].depth = 0 /\ captures[j].emitted
        \/ captures[j].exhausted /\ captures[j].depth > 0 /\ ~captures[j].emitted

(* ---- C10 ---- *)

MarkerLines == {m \in 0..(Len(lines) - 1) : IsMarker(lines[m + 1])}

\* C10: every line is consumed exactly once, as a line examined for the
\* marker or as a captured line, never both; a marker line inside a capture
\* is appended to the code and opens no block; there are at most as many
\* Blocks as marker lines; no marker line after an unclosed marker yields a
\* Block.
C10_ConsumedOnce ==
    /\ \A n \in 0..(Len(lines) - 1) :
           Count(examined, n) + Count(captured, n) = (IF n < i THEN 1 ELSE 0)
    /\ ExtractOver =>
           \A n \in 0..(Len(lines) - 1) :
               Count(examined, n) + Count(captured, n) = 1
    /\ \A n \in 1..Len(captured) :
           /\ marker /= captured[n]
           /\ \A j \in 1..Len(captures) : captures[j].marker /= captured[n]
    /\ pc = "capture" => code = Joined(marker + 1, i - 1)
    /\ Len(blocks) <= Cardinality(MarkerLines)
    /\ \A j \in 1..Len(captures) :
           (captures[j].exhausted /\ captures[j].depth > 0) =>
               /\ j = Len(captures)
               /\ pc /= "capture"
               /\ \A n \in (captures[j].marker + 1)..(Len(lines) - 1) :
                      Count(captured, n) = 1

====
